---- MODULE Spec2Model ----
(***************************************************************************)
(* Model of the substreams-ethereum ABI binding generator:                 *)
(*   abigen/src/build.rs     Abigen builder, GeneratedBindings             *)
(*   abigen/src/contract.rs  Contract::from / add_* / generate and the     *)
(*                           Events::match_and_decode dispatcher it emits  *)
(*   abigen-tests/build.rs   the build script driving the builder          *)
(*                                                                         *)
(* Strings that the code compares or formats (entry names) are sequences   *)
(* of byte values, so that format!("{}{}", name, index + 1) and            *)
(* String::cmp are computed as the code computes them.  "a" is <<97>> and  *)
(* "1" is <<49>>.  Option<T> is a sequence of length 0 (None) or 1 (Some). *)
(***************************************************************************)
EXTENDS Integers, Sequences, FiniteSets, TLC

\* ------------------------------------------------------------------ bounds
\* Longest ABI whose entries are drawn freely from EntryShapes.
MaxDecl == 2
\* Largest overload group (entries sharing one declared name) of an ABI.
MaxOverload == 10
\* Number of times Abigen::generate is called on one builder.
MaxGenerate == 2
\* Largest number of topics of a runtime log.
MaxTopics == 2

\* ------------------------------------------------------------------ strings
None == <<>>
Some(x) == <<x>>

\* The declared names the ABIs use: "a" and "a1".
Names == { <<97>>, <<97, 49>> }

\* format!("{}", n) for an unsigned n: its decimal text.
RECURSIVE Decimal(_)
Decimal(n) ==
    IF n < 10 THEN << 48 + n >>
    ELSE Decimal(n \div 10) \o << 48 + (n % 10) >>

\* left.cmp(&right) == Less on String: bytewise lexicographic order, a proper
\* prefix being smaller.
RECURSIVE StrLess(_, _)
StrLess(s, t) ==
    IF t = <<>> THEN FALSE
    ELSE IF s = <<>> THEN TRUE
    ELSE IF Head(s) < Head(t) THEN TRUE
    ELSE IF Head(s) > Head(t) THEN FALSE
    ELSE StrLess(Tail(s), Tail(t))

StrLessEq(s, t) == s = t \/ StrLess(s, t)

\* ------------------------------------------------------------------ the ABI
\* An ABI entry as declared: a function or an event with its declared name.  An
\* event carries its anonymous flag and its number of indexed inputs; `id` is the
\* entry's position in the ABI and stands for the rest of its signature.
FunctionShapes ==
    { [kind |-> "function", name |-> n, anonymous |-> FALSE, indexed |-> 0] :
        n \in Names }

EventShapes ==
    { [kind |-> "event", name |-> n, anonymous |-> a, indexed |-> x] :
        n \in Names, a \in BOOLEAN, x \in {0, 1} }

EntryShapes == FunctionShapes \cup EventShapes

Tag(shapes) ==
    [ i \in 1..Len(shapes) |->
        [kind |-> shapes[i].kind, name |-> shapes[i].name,
         anonymous |-> shapes[i].anonymous, indexed |-> shapes[i].indexed,
         id |-> i] ]

\* ABIs of up to MaxDecl entries drawn freely.
FreeAbis == UNION { [1..n -> EntryShapes] : n \in 0..MaxDecl }

\* ABIs with one overload group of 2..MaxOverload members, alone or after one
\* entry of the other declared name.
Extras(s) ==
    { <<>> } \cup { << [s EXCEPT !.name = o] >> : o \in Names \ {s.name} }

OverloadAbis ==
    UNION { { extra \o [i \in 1..n |-> s] : n \in 2..MaxOverload, extra \in Extras(s) } :
              s \in EntryShapes }

AbiInputs == { Tag(s) : s \in FreeAbis \cup OverloadAbis }

\* ethabi::Contract as loaded from the ABI: entries grouped by declared name, each
\* group in declaration order.
Group(abi, kind, name) ==
    SelectSeq(abi, LAMBDA e : e.kind = kind /\ e.name = name)

KeysOf(abi, kind) ==
    { abi[i].name : i \in { j \in DOMAIN abi : abi[j].kind = kind } }

Load(abi) ==
    [ events    |-> [ n \in KeysOf(abi, "event") |-> Group(abi, "event", n) ],
      functions |-> [ n \in KeysOf(abi, "function") |-> Group(abi, "function", n) ] ]

\* ------------------------------------------------------------------ Contract::from
RECURSIVE SortedKeys(_)
SortedKeys(S) ==
    IF S = {} THEN <<>>
    ELSE LET k == CHOOSE x \in S : \A o \in S : StrLessEq(x, o)
         IN  << k >> \o SortedKeys(S \ {k})

\* c.events.values() / c.functions.values(): the groups in ascending key order.
Values(m) ==
    LET keys == SortedKeys(DOMAIN m)
    IN  [ i \in 1..Len(keys) |-> m[keys[i]] ]

\* Faulty variant: the suffix is the 0-based index itself.
FinalNameZeroBased(name, count, index) ==
    IF count <= 1 THEN name ELSE name \o Decimal(index)

\* Faulty variant: the suffix is the size of the group.
FinalNameCount(name, count, index) ==
    IF count <= 1 THEN name ELSE name \o Decimal(count)

\* The name given to the member at 0-based position `index` of a group of `count`.
FinalName(name, count, index) ==
    IF count <= 1 THEN name ELSE name \o Decimal(index + 1)

\* (&name, event).into() and (&name, function).into()
EventFrom(name, event) == [name |-> name, event |-> event, extension |-> None]

FunctionFrom(name, function) == [name |-> name, function |-> function]

EventsRenamed(events) ==
    LET count == Len(events)
    IN  [ i \in 1..count |-> EventFrom(FinalName(events[i].name, count, i - 1), events[i]) ]

FunctionsRenamed(functions) ==
    LET count == Len(functions)
    IN  [ i \in 1..count |->
            FunctionFrom(FinalName(functions[i].name, count, i - 1), functions[i]) ]

RECURSIVE Flatten(_)
Flatten(ss) == IF ss = <<>> THEN <<>> ELSE Head(ss) \o Flatten(Tail(ss))

\* Insert x behind every element whose name is not greater: the position a stable
\* sort gives an element that came last in the input.
InsertByName(sorted, x) ==
    LET keep == { i \in 1..Len(sorted) : StrLessEq(sorted[i].name, x.name) }
        k    == Cardinality(keep)
    IN  SubSeq(sorted, 1, k) \o << x >> \o SubSeq(sorted, k + 1, Len(sorted))

\* Faulty variant: the collection is left as collected.
SortByNameSkipped(v) == v

\* Faulty variant: the comparison is right.name.cmp(&left.name).
RECURSIVE SortByNameReversed(_)
SortByNameReversed(v) ==
    IF v = <<>> THEN <<>>
    ELSE LET sorted == SortByNameReversed(SubSeq(v, 1, Len(v) - 1))
             x      == v[Len(v)]
             k      == Cardinality({ i \in 1..Len(sorted) :
                                       StrLessEq(x.name, sorted[i].name) })
         IN  SubSeq(sorted, 1, k) \o << x >> \o SubSeq(sorted, k + 1, Len(sorted))

\* v.sort_by(|left, right| left.name.cmp(&right.name)): a stable sort.
RECURSIVE SortByName(_)
SortByName(v) ==
    IF v = <<>> THEN <<>>
    ELSE InsertByName(SortByName(SubSeq(v, 1, Len(v) - 1)), v[Len(v)])

ContractFrom(c) ==
    [ contract_name |-> None,
      functions |->
        SortByName(Flatten([ i \in 1..Len(Values(c.functions)) |->
                               FunctionsRenamed(Values(c.functions)[i]) ])),
      events |->
        SortByName(Flatten([ i \in 1..Len(Values(c.events)) |->
                               EventsRenamed(Values(c.events)[i]) ])),
      extension |-> None ]

\* ------------------------------------------------------------------ extensions
\* EventExtension::new()
EventExtensionNew ==
    [ extended_event_derive |-> <<>>,
      extended_event_import |-> <<>>,
      extended_event_attribute |-> <<>> ]

\* EventExtension::extend_event_derive
ExtendEventDerive(e, derive) ==
    [e EXCEPT !.extended_event_derive = Append(@, derive)]

\* AbiExtension::new
AbiExtensionNew(event_extension) == [event_extension |-> event_extension]

\* AbiExtension::event_extension
EventExtensionOf(extension) == extension.event_extension

\* The extensions a build script attaches: none derived, or Hash derived.
Extensions ==
    { AbiExtensionNew(EventExtensionNew),
      AbiExtensionNew(ExtendEventDerive(EventExtensionNew, "Hash")) }

\* ------------------------------------------------------------------ Contract
ContractAddContractName(c, name) == [c EXCEPT !.contract_name = Some(name)]

\* Event::add_extension
EventAddExtension(event, event_extension) ==
    [event EXCEPT !.extension = Some(event_extension)]

\* Faulty variant: the extension handed in is stored whether present or not.
ContractSetExtension(c, extension) ==
    [c EXCEPT !.extension = extension,
              !.events = [ i \in 1..Len(c.events) |->
                             IF extension # None
                             THEN EventAddExtension(c.events[i],
                                                    EventExtensionOf(extension[1]))
                             ELSE c.events[i] ]]

\* Contract::add_extension, `extension` an Option<AbiExtension>
ContractAddExtension(c, extension) ==
    IF extension # None
    THEN LET event_extension == EventExtensionOf(extension[1])
         IN  [c EXCEPT !.extension = Some(extension[1]),
                       !.events = [ i \in 1..Len(c.events) |->
                                      EventAddExtension(c.events[i], event_extension) ]]
    ELSE c

\* Event::generate_camel_name: the final name with its first letter in upper case.
GenerateCamelName(event) ==
    LET n == event.name
    IN  IF n # <<>> /\ n[1] >= 97 /\ n[1] <= 122
        THEN << n[1] - 32 >> \o Tail(n)
        ELSE n

\* The signature of an event, "name()" (types are not modelled), and its hash.
Topic0(event) == [keccak |-> event.name \o << 40, 41 >>]

\* Event::generate_event: the struct of one event with what its matcher reads.
GenerateEvent(event) ==
    [ ident     |-> GenerateCamelName(event),
      topic_id  |-> Topic0(event.event),
      anonymous |-> event.event.anonymous,
      indexed   |-> event.event.indexed,
      id        |-> event.event.id,
      extension |-> event.extension ]

\* Function::generate
GenerateFunction(function) == [ident |-> function.name, id |-> function.function.id]

\* The #[derive(...)] put on enum Events.
Derive(c) ==
    IF c.extension # None
    THEN LET list == EventExtensionOf(c.extension[1]).extended_event_derive
         IN  IF Len(list) > 0 THEN Some(list) ELSE None
    ELSE None

\* Contract::generate.  `items` lists the top-level items in order; each module
\* lists its own items in order, then carries the parts spliced into them.
ContractGenerate(c) ==
    [ items |-> << "const INTERNAL_ERR", "const CONTRACT_NAME",
                   "mod functions", "mod events" >>,
      contract_name |-> IF c.contract_name # None THEN c.contract_name[1] ELSE "",
      functions_mod |->
        [ items     |-> << "use super::INTERNAL_ERR" >>,
          functions |-> [ i \in 1..Len(c.functions) |-> GenerateFunction(c.functions[i]) ] ],
      events_mod |->
        [ items        |-> << "use super::INTERNAL_ERR", "enum Events", "impl Events" >>,
          derive       |-> Derive(c),
          events_ident |-> [ i \in 1..Len(c.events) |-> GenerateCamelName(c.events[i]) ],
          event_match  |-> [ i \in 1..Len(c.events) |-> GenerateCamelName(c.events[i]) ],
          events       |-> [ i \in 1..Len(c.events) |-> GenerateEvent(c.events[i]) ] ] ]

\* generate_abi_code / generate_abi_code_from_bytes once the ABI is loaded.
GenerateAbiCode(c, contract_name, extension) ==
    ContractGenerate(
        ContractAddExtension(
            ContractAddContractName(ContractFrom(c), contract_name), extension))

\* ------------------------------------------------------------------ runtime logs
\* A topic that is no event's topic0 (an indexed value).
OtherTopic == [keccak |-> <<>>]

TopicValues == { [keccak |-> n \o << 40, 41 >>] : n \in Names } \cup { OtherTopic }

\* Logs of up to MaxTopics topics; `data_ok` tells whether the log's topics and
\* data decode as the inputs of an event.
Logs ==
    { [topics |-> t, data_ok |-> d] :
        t \in { <<>> } \cup
              { << first >> \o [ i \in 1..n |-> OtherTopic ] :
                  first \in TopicValues, n \in 0..(MaxTopics - 1) },
        d \in BOOLEAN }

\* <Event>::match_log: topic0 (unless anonymous) and the number of topics.
EventMatchLog(ev, log) ==
    /\ ~ev.anonymous => (Len(log.topics) >= 1 /\ log.topics[1] = ev.topic_id)
    /\ Len(log.topics) - (IF ev.anonymous THEN 0 ELSE 1) = ev.indexed

\* <Event>::decode(log).ok()
EventDecode(ev, log) ==
    IF log.data_ok THEN Some([ident |-> ev.ident, id |-> ev.id]) ELSE None

\* <Event>::match_and_decode
EventMatchAndDecode(ev, log) ==
    IF EventMatchLog(ev, log) THEN EventDecode(ev, log) ELSE None

\* The struct an identifier of the events module names.
Resolve(events_mod, ident) ==
    CHOOSE ev \in { events_mod.events[i] : i \in DOMAIN events_mod.events } :
        ev.ident = ident

\* Events::match_and_decode as generated: one `if let Some(event) = ...` per entry of
\* event_match, in order, then `return None`.
RECURSIVE EventsMatchFrom(_, _, _)
EventsMatchFrom(events_mod, log, i) ==
    IF i > Len(events_mod.event_match) THEN None
    ELSE LET ident == events_mod.event_match[i]
             r     == EventMatchAndDecode(Resolve(events_mod, ident), log)
         IN  IF r # None
             THEN Some([variant |-> ident, event |-> r[1]])
             ELSE EventsMatchFrom(events_mod, log, i + 1)

\* Faulty variant: the variants are tried from the last to the first.
RECURSIVE EventsMatchDownFrom(_, _, _)
EventsMatchDownFrom(events_mod, log, i) ==
    IF i < 1 THEN None
    ELSE LET ident == events_mod.event_match[i]
             r     == EventMatchAndDecode(Resolve(events_mod, ident), log)
         IN  IF r # None
             THEN Some([variant |-> ident, event |-> r[1]])
             ELSE EventsMatchDownFrom(events_mod, log, i - 1)

EventsMatchBackward(events_mod, log) ==
    EventsMatchDownFrom(events_mod, log, Len(events_mod.event_match))

\* Faulty variant: a variant is taken on its topic0 alone, whatever the number of topics.
RECURSIVE EventsMatchTopicFrom(_, _, _)
EventsMatchTopicFrom(events_mod, log, i) ==
    IF i > Len(events_mod.event_match) THEN None
    ELSE LET ident == events_mod.event_match[i]
             ev    == Resolve(events_mod, ident)
         IN  IF Len(log.topics) >= 1 /\ log.topics[1] = ev.topic_id
             THEN Some([variant |-> ident, event |-> [ident |-> ev.ident, id |-> ev.id]])
             ELSE EventsMatchTopicFrom(events_mod, log, i + 1)

EventsMatchTopicOnly(events_mod, log) == EventsMatchTopicFrom(events_mod, log, 1)

EventsMatchAndDecode(events_mod, log) == EventsMatchFrom(events_mod, log, 1)

\* The generated modules compile only when no two items of a module share a name.
Distinct(seq) == \A i, j \in DOMAIN seq : i # j => seq[i] # seq[j]

Compiles(item) ==
    /\ Distinct(item.events_mod.events_ident)
    /\ Distinct([ i \in DOMAIN item.functions_mod.functions |->
                    item.functions_mod.functions[i].ident ])

\* ------------------------------------------------------------------ Abigen
\* Abigen::new
AbigenNewValue(contract_name, path) ==
    [ abi_path |-> path, bytes |-> None, contract_name |-> contract_name,
      contract_address |-> None, extension |-> None ]

\* Abigen::from_bytes
AbigenFromBytesValue(contract_name, abi_bytes) ==
    [ abi_path |-> "", bytes |-> Some(abi_bytes), contract_name |-> contract_name,
      contract_address |-> None, extension |-> None ]

\* Abigen::add_extension
AbigenAddExtensionValue(b, extension) == [b EXCEPT !.extension = Some(extension)]

\* Faulty variant: the extension is moved out of the builder instead of cloned.
GenerateArgsTaking(b) ==
    [ contract_name |-> b.contract_name, extension |-> b.extension,
      builder |-> [b EXCEPT !.extension = None] ]

\* The arguments Abigen::generate hands to generate_abi_code: clones of the
\* builder's fields, the builder itself being borrowed.
GenerateArgs(b) ==
    [ contract_name |-> b.contract_name, extension |-> b.extension, builder |-> b ]

\* What can go wrong before the contract is loaded.
LoadOutcomes(b) ==
    IF b.bytes = None
    THEN { "ok", "reading abi", "parsing abi", "unsupported type" }
    ELSE { "ok", "parsing abi", "unsupported type" }

\* prettyplease::unparse(&file)
Unparse(item) == [complete |-> TRUE, text |-> item]

\* Faulty variant: code that does not parse is returned unformatted with the error noted.
GenerateResultLenient(item, parsed) ==
    IF parsed
    THEN [bindings |-> Some([code |-> Unparse(item)]), error |-> None]
    ELSE [bindings |-> Some([code |-> [complete |-> TRUE, text |-> item]]),
          error |-> Some("parsing generated code")]

\* The tail of Abigen::generate: syn::parse_file(..).context(..)? then Ok(..).
GenerateResult(item, parsed) ==
    IF parsed
    THEN [bindings |-> Some([code |-> Unparse(item)]), error |-> None]
    ELSE [bindings |-> None, error |-> Some("parsing generated code")]

\* ------------------------------------------------------------------ state
VARIABLES
    pc,         \* where the build script and the program using the bindings stand
    abi,        \* the ABI the builder is pointed at
    abigen,     \* Option<Abigen>: the builder
    args,       \* Option: the arguments of the running generate_abi_code call
    loaded,     \* Option<ethabi::Contract>
    contract,   \* Option<Contract>
    item,       \* Option<TokenStream>: what Contract::generate returned
    bindings,   \* Option<GeneratedBindings>: what the last Abigen::generate returned
    generated,  \* the code of every successful Abigen::generate call, in order
    file,       \* Option: the contents of the output file
    error,      \* Option: the error the build script stopped with
    log,        \* Option<Log>: the last log handed to Events::match_and_decode
    decoded     \* Option<Events>: what it returned

vars == << pc, abi, abigen, args, loaded, contract, item, bindings, generated,
           file, error, log, decoded >>

Init ==
    /\ pc = "start"
    /\ abi \in AbiInputs
    /\ abigen = None
    /\ args = None
    /\ loaded = None
    /\ contract = None
    /\ item = None
    /\ bindings = None
    /\ generated = <<>>
    /\ file = None
    /\ error = None
    /\ log = None
    /\ decoded = None

\* Abigen::new(contract_name, path)?
AbigenNew ==
    /\ pc = "start"
    /\ \E normalized \in BOOLEAN :
         IF normalized
         THEN /\ abigen' = Some(AbigenNewValue("tests", "abi/tests.json"))
              /\ pc' = "builder"
              /\ error' = error
         ELSE /\ abigen' = abigen
              /\ pc' = "failed"
              /\ error' = Some("normalize path")
    /\ UNCHANGED << abi, args, loaded, contract, item, bindings, generated, file,
                    log, decoded >>

\* Abigen::from_bytes(contract_name, abi_bytes)?
AbigenFromBytes ==
    /\ pc = "start"
    /\ abigen' = Some(AbigenFromBytesValue("tests", abi))
    /\ pc' = "builder"
    /\ UNCHANGED << abi, args, loaded, contract, item, bindings, generated, file,
                    error, log, decoded >>

\* abigen.add_extension(extension)
AbigenAddExtension ==
    /\ pc = "builder"
    /\ \E extension \in Extensions :
         abigen' = Some(AbigenAddExtensionValue(abigen[1], extension))
    /\ UNCHANGED << pc, abi, args, loaded, contract, item, bindings, generated,
                    file, error, log, decoded >>

\* Abigen::generate, entry: the call of generate_abi_code(_from_bytes), which
\* reads and parses the ABI.
GenerateLoad ==
    /\ pc \in { "builder", "written" }
    /\ Len(generated) < MaxGenerate
    /\ LET a == GenerateArgs(abigen[1])
       IN  /\ abigen' = Some(a.builder)
           /\ args' = Some([contract_name |-> a.contract_name, extension |-> a.extension])
    /\ bindings' = None
    /\ \E outcome \in LoadOutcomes(abigen[1]) :
         IF outcome = "ok"
         THEN /\ loaded' = Some(Load(abi))
              /\ pc' = "loaded"
              /\ error' = error
         ELSE /\ loaded' = loaded
              /\ pc' = "failed"
              /\ error' = Some(outcome)
    /\ UNCHANGED << abi, contract, item, generated, file, log, decoded >>

\* Contract::from(&contract)
ContractFromStep ==
    /\ pc = "loaded"
    /\ contract' = Some(ContractFrom(loaded[1]))
    /\ pc' = "from"
    /\ UNCHANGED << abi, abigen, args, loaded, item, bindings, generated, file,
                    error, log, decoded >>

\* .add_contract_name(contract_name)
ContractAddContractNameStep ==
    /\ pc = "from"
    /\ contract' = Some(ContractAddContractName(contract[1], args[1].contract_name))
    /\ pc' = "named"
    /\ UNCHANGED << abi, abigen, args, loaded, item, bindings, generated, file,
                    error, log, decoded >>

\* .add_extension(extension)
ContractAddExtensionStep ==
    /\ pc = "named"
    /\ contract' = Some(ContractAddExtension(contract[1], args[1].extension))
    /\ pc' = "extended"
    /\ UNCHANGED << abi, abigen, args, loaded, item, bindings, generated, file,
                    error, log, decoded >>

\* .generate()
ContractGenerateStep ==
    /\ pc = "extended"
    /\ item' = Some(ContractGenerate(contract[1]))
    /\ pc' = "generated"
    /\ UNCHANGED << abi, abigen, args, loaded, contract, bindings, generated, file,
                    error, log, decoded >>

\* Contract::from(&c).generate(): generate called on the model as constructed, with
\* no contract name and no extension attached (as test_no_body does).
ContractGenerateDirect ==
    /\ pc = "from"
    /\ item' = Some(ContractGenerate(contract[1]))
    /\ pc' = "direct"
    /\ UNCHANGED << abi, abigen, args, loaded, contract, bindings, generated, file,
                    error, log, decoded >>

\* Abigen::generate, exit: parse the generated code, unparse it, return.
GenerateReturn ==
    /\ pc = "generated"
    /\ \E parsed \in BOOLEAN :
         LET r == GenerateResult(item[1], parsed)
         IN  /\ bindings' = r.bindings
             /\ error' = r.error
             /\ pc' = IF r.bindings # None THEN "bound" ELSE "failed"
             /\ generated' = IF r.bindings # None
                             THEN Append(generated, r.bindings[1].code)
                             ELSE generated
    /\ UNCHANGED << abi, abigen, args, loaded, contract, item, file, log, decoded >>

\* GeneratedBindings::write_to_file(path)?
WriteToFile ==
    /\ pc = "bound"
    /\ \E outcome \in { "ok", "normalize path", "creating directories", "writing file" } :
         IF outcome = "ok"
         THEN /\ file' = Some(bindings[1].code)
              /\ pc' = "written"
              /\ error' = error
         ELSE /\ pc' = "failed"
              /\ error' = Some(outcome)
              /\ IF outcome = "writing file"
                 THEN file' \in { file, Some([bindings[1].code EXCEPT !.complete = FALSE]) }
                 ELSE file' = file
    /\ UNCHANGED << abi, abigen, args, loaded, contract, item, bindings, generated,
                    log, decoded >>

\* A program built with the written bindings hands a log to
\* Events::match_and_decode.  Every call is independent of the calls before it, so
\* one call from the written state reaches every result.
RunLog ==
    /\ pc = "written"
    /\ Compiles(file[1].text)
    /\ \E l \in Logs :
         /\ log' = Some(l)
         /\ decoded' = EventsMatchAndDecode(file[1].text.events_mod, l)
    /\ pc' = "running"
    /\ UNCHANGED << abi, abigen, args, loaded, contract, item, bindings, generated,
                    file, error >>

Next ==
    \/ AbigenNew
    \/ AbigenFromBytes
    \/ AbigenAddExtension
    \/ GenerateLoad
    \/ ContractFromStep
    \/ ContractAddContractNameStep
    \/ ContractAddExtensionStep
    \/ ContractGenerateStep
    \/ ContractGenerateDirect
    \/ GenerateReturn
    \/ WriteToFile
    \/ RunLog

Spec == Init /\ [][Next]_vars

\* ------------------------------------------------------------------ properties
\* s <= t in bytewise lexicographic order, stated without recursion: s and t agree
\* on a prefix after which s ends or has the smaller byte.
LexLeq(s, t) ==
    \E k \in 0..Len(s) :
        /\ k <= Len(t)
        /\ \A i \in 1..k : s[i] = t[i]
        /\ \/ k = Len(s)
           \/ (k < Len(t) /\ s[k + 1] < t[k + 1])

\* The value of a sequence of decimal digits.
RECURSIVE DigitsValue(_)
DigitsValue(d) ==
    IF d = <<>> THEN 0 ELSE 10 * DigitsValue(SubSeq(d, 1, Len(d) - 1)) + (d[Len(d)] - 48)

\* d is the decimal text of n >= 1: digits only, no leading zero, value n.
IsDecimalOf(d, n) ==
    /\ Len(d) >= 1
    /\ \A i \in 1..Len(d) : d[i] >= 48 /\ d[i] <= 57
    /\ d[1] # 48
    /\ DigitsValue(d) = n

\* The final name a claim expects for member i (1-based) of group g declared as n.
NamedAsClaimed(final, n, g, i) ==
    IF Len(g) = 1
    THEN final = n
    ELSE /\ Len(final) > Len(n)
         /\ SubSeq(final, 1, Len(n)) = n
         /\ IsDecimalOf(SubSeq(final, Len(n) + 1, Len(final)), i)

\* Every member of every group of `groups` is in `coll` exactly once, under the
\* name the claim gives it; `decl` reads the declared entry of a model entry.
GroupsNamed(groups, coll, decl(_)) ==
    /\ Len(coll) = Len(Flatten(Values(groups)))
    /\ \A n \in DOMAIN groups :
         \A i \in 1..Len(groups[n]) :
            /\ Cardinality({ k \in DOMAIN coll : decl(coll[k]) = groups[n][i] }) = 1
            /\ \A k \in DOMAIN coll :
                 decl(coll[k]) = groups[n][i]
                    => NamedAsClaimed(coll[k].name, n, groups[n], i)

\* The states of a generation pass in which the Contract built by Contract::from
\* exists: from its construction to the return of Contract::generate.
ModelBuilt == pc \in { "from", "named", "extended", "generated", "direct" }

EventDecl(e) == e.event
FunctionDecl(f) == f.function

\* C1: after Contract::from, a member of a name group of size 1 keeps its declared
\* name, and the member at 0-based declaration position i of a group of size n > 1
\* is named by the declared name followed by the decimal text of i+1, for functions
\* and for events.
C1_FinalNames ==
    ModelBuilt =>
        /\ GroupsNamed(loaded[1].events, contract[1].events, EventDecl)
        /\ GroupsNamed(loaded[1].functions, contract[1].functions, FunctionDecl)

\* A model just built from an ABI with a group of at least ten members (two-digit
\* suffixes) and a group of one.
C1_Witness ==
    /\ pc = "from"
    /\ \E n, m \in DOMAIN loaded[1].events :
         Len(loaded[1].events[n]) >= 10 /\ Len(loaded[1].events[m]) = 1

NamesOf(coll) == [ i \in DOMAIN coll |-> coll[i].name ]

\* C2 as claimed: no two entries of the function collection and no two entries of
\* the event collection have the same final name, for every ABI.
C2_UniqueNames ==
    ModelBuilt =>
        /\ Distinct(NamesOf(contract[1].functions))
        /\ Distinct(NamesOf(contract[1].events))

\* No declared name is an overloaded declared name followed by decimal digits.
NoSuffixClash(groups) ==
    \A n, m \in DOMAIN groups :
        (Len(groups[n]) > 1 /\ Len(m) > Len(n) /\ SubSeq(m, 1, Len(n)) = n)
            => \E i \in (Len(n) + 1)..Len(m) : m[i] < 48 \/ m[i] > 57

\* C2 as amended: final names are unique in the function collection and in the
\* event collection of every ABI in which no declared name of the collection is an
\* overloaded declared name of it followed by decimal digits.
C2_UniqueWithoutClash ==
    ModelBuilt =>
        /\ NoSuffixClash(loaded[1].functions)
              => Distinct(NamesOf(contract[1].functions))
        /\ NoSuffixClash(loaded[1].events)
              => Distinct(NamesOf(contract[1].events))

\* A model with an overload group of ten and a second group, no clash between them.
C2_Witness ==
    /\ pc = "from"
    /\ NoSuffixClash(loaded[1].functions)
    /\ \E n, m \in DOMAIN loaded[1].functions :
         n # m /\ Len(loaded[1].functions[n]) >= 10

Sorted(names) ==
    \A i \in 1..(Len(names) - 1) : LexLeq(names[i], names[i + 1])

\* C3: after Contract::from the function collection and the event collection are
\* each ordered by final name: adjacent entries compare less than or equal.
C3_SortedByFinalName ==
    ModelBuilt =>
        /\ Sorted(NamesOf(contract[1].functions))
        /\ Sorted(NamesOf(contract[1].events))

\* A model whose function collection had to be reordered: ten overloads, the tenth
\* (suffix 10) placed second.
C3_Witness ==
    /\ pc = "from"
    /\ Len(contract[1].functions) >= 10
    /\ contract[1].functions[2].function.id > contract[1].functions[3].function.id

\* Position of the entry of `coll` made from the declared entry d.
PositionOf(coll, decl(_), d) == CHOOSE k \in DOMAIN coll : decl(coll[k]) = d

\* Members of the groups of `groups` whose size is in `sizes` keep their
\* declaration order in `coll`.
GroupOrderKept(groups, coll, decl(_), sizes) ==
    \A n \in DOMAIN groups :
        Len(groups[n]) \in sizes =>
            \A i, j \in 1..Len(groups[n]) :
                i < j => PositionOf(coll, decl, groups[n][i])
                            < PositionOf(coll, decl, groups[n][j])

\* C4 as claimed: for every group size n > 1, the member renamed with suffix i+1
\* stands before the member renamed with suffix j+1 whenever i < j.
C4_DeclarationOrder ==
    ModelBuilt =>
        /\ GroupOrderKept(loaded[1].functions, contract[1].functions, FunctionDecl,
                          2..(Len(abi) + 2))
        /\ GroupOrderKept(loaded[1].events, contract[1].events, EventDecl,
                          2..(Len(abi) + 2))

\* C4 as amended: the same for every group of 2 to 9 members (one-digit suffixes).
C4_DeclarationOrderUpTo9 ==
    ModelBuilt =>
        /\ GroupOrderKept(loaded[1].functions, contract[1].functions, FunctionDecl, 2..9)
        /\ GroupOrderKept(loaded[1].events, contract[1].events, EventDecl, 2..9)

\* A model with an overload group of nine beside another entry.
C4_Witness ==
    /\ pc = "from"
    /\ \E n, m \in DOMAIN loaded[1].events :
         n # m /\ Len(loaded[1].events[n]) = 9

\* The events of the ABI in declaration order.
DeclaredEvents == SelectSeq(abi, LAMBDA e : e.kind = "event")

\* Positions of `evs` (model events) whose own match_and_decode accepts the log.
Matching(evs, l) ==
    { k \in DOMAIN evs : EventMatchAndDecode(GenerateEvent(evs[k]), l) # None }

\* What Events::match_and_decode returns when it answers with the model event e.
Answer(e) ==
    Some([variant |-> GenerateCamelName(e),
          event   |-> [ident |-> GenerateCamelName(e), id |-> e.event.id]])

\* C5 as claimed: Events::match_and_decode returns the matching variant declared
\* first in the ABI, and None exactly when no variant matches.
C5_FirstDeclared ==
    pc = "running" =>
        LET evs == contract[1].events
            m   == Matching(evs, log[1])
        IN  IF m = {} THEN decoded = None
            ELSE \E k \in m :
                    /\ decoded = Answer(evs[k])
                    /\ \A o \in m : evs[k].event.id <= evs[o].event.id

\* C5 as amended: Events::match_and_decode tries the variants in the order of the
\* model's event collection, which is sorted by final name, and returns the first
\* variant whose own match_and_decode succeeds (of two matching variants, the one
\* whose final name sorts first); it returns None exactly when no variant matches.
C5_FirstByFinalName ==
    pc = "running" =>
        LET evs == contract[1].events
            m   == Matching(evs, log[1])
        IN  IF m = {} THEN decoded = None
            ELSE \E k \in m :
                    /\ decoded = Answer(evs[k])
                    /\ \A o \in m : k <= o /\ LexLeq(evs[k].name, evs[o].name)

\* A log matched by two variants, answered with the one declared later.
C5_Witness ==
    /\ pc = "running"
    /\ decoded # None
    /\ \E o \in Matching(contract[1].events, log[1]) :
         contract[1].events[o].event.id < decoded[1].event.id

\* The ABI with its entries at positions i and i+1 exchanged.
Swap(a, i) ==
    [ k \in DOMAIN a |-> IF k = i THEN a[i + 1] ELSE IF k = i + 1 THEN a[i] ELSE a[k] ]

\* Positions where two neighbouring entries belong to different name groups.
GroupBorders(a) ==
    { i \in 1..(Len(a) - 1) : a[i].kind # a[i + 1].kind \/ a[i].name # a[i + 1].name }

C7_NoBody ==
    ( /\ pc = "direct"
      /\ contract[1].functions = <<>>
      /\ contract[1].events = <<>>
      /\ contract[1].contract_name = None
      /\ contract[1].extension = None )
    => /\ item[1].items = << "const INTERNAL_ERR", "mod functions", "mod events" >>
       /\ item[1].functions_mod.items = << "use super::INTERNAL_ERR" >>
       /\ item[1].functions_mod.functions = <<>>
       /\ item[1].events_mod.items = << "use super::INTERNAL_ERR" >>
       /\ item[1].events_mod.events = <<>>

\* The errors with which Abigen::generate fails.
GenerationErrors ==
    { Some("reading abi"), Some("parsing abi"), Some("unsupported type"),
      Some("parsing generated code") }

\* C8: a failed Abigen::generate returns no GeneratedBindings and stops the build
\* script, and the output file changes only in a step taken while a successfully
\* generated GeneratedBindings is at hand and no error has occurred.
C8_NoArtifactOnFailure ==
    /\ [](error \in GenerationErrors => (bindings = None /\ pc = "failed"))
    /\ [][file' # file => (pc = "bound" /\ bindings # None /\ error = None)]_vars

\* A second generate failed on its generated code while the file written after the
\* first one is still there, whole.
C8_Witness ==
    /\ error = Some("parsing generated code")
    /\ Len(generated) = 1
    /\ file = Some(generated[1])

\* The event structs of the written bindings.
WrittenEvents ==
    { file[1].text.events_mod.events[i] : i \in DOMAIN file[1].text.events_mod.events }

\* A non-anonymous event whose number of indexed inputs is not the log's number of
\* topics less one.
Mismatched(ev, l) == ~ev.anonymous /\ Len(l.topics) - 1 # ev.indexed

ExtensionFrame(c, d, x) ==
    IF x = None THEN d = c
    ELSE /\ d.extension = x
         /\ d.functions = c.functions
         /\ d.contract_name = c.contract_name
         /\ Len(d.events) = Len(c.events)
         /\ \A i \in DOMAIN c.events :
              /\ d.events[i].name = c.events[i].name
              /\ d.events[i].event = c.events[i].event
              /\ d.events[i].extension = Some(x[1].event_extension)

\* C10: Contract::add_extension with an extension stores it and puts its event
\* part on every event, leaving the functions, the events' number, order and names
\* and the contract name as they were; with None it leaves the model as it was,
\* also a model that holds an extension already.
C10_AddExtensionFrame ==
    /\ [][(pc = "named" /\ pc' = "extended")
            => ExtensionFrame(contract[1], contract'[1], args[1].extension)]_vars
    /\ [](pc = "extended"
            => ExtensionFrame(contract[1], ContractAddExtension(contract[1], None), None))

\* An extension has been attached to a model with a function and an event.
C10_Witness ==
    /\ pc = "extended"
    /\ contract[1].extension # None
    /\ Len(contract[1].events) >= 1
    /\ Len(contract[1].functions) >= 1
    /\ contract[1].events[1].extension # None

====
